---- MODULE Spec2Model ----
(***************************************************************************)
(* A model of pepnet.encoder.Encoder: its token vocabulary, the sequence   *)
(* preparation and length validation, and the index, one-hot, pairwise-    *)
(* property and FOFE encodings.                                            *)
(*                                                                         *)
(* A Python string is modelled as a sequence of one-character strings; a   *)
(* one-character string is identified with its character, which is the key *)
(* of the vocabulary's dictionaries.  Arrays are functions over 0..n-1, so *)
(* offsets read as they do in the source.  None is the integer -1.         *)
(* Peptides are composed only of letters of every configured alphabet.     *)
(***************************************************************************)
EXTENDS Integers, Sequences, FiniteSets, TLC

VARIABLES amino_acid_alphabet, variable_length_sequences, add_start_tokens,
          add_stop_tokens, add_normalized_position, add_normalized_centrality,
          tokens_to_names, index_dict, n_added, pc, call, result

config == <<amino_acid_alphabet, variable_length_sequences, add_start_tokens,
            add_stop_tokens, add_normalized_position, add_normalized_centrality>>

vocabulary == <<tokens_to_names, index_dict, n_added>>

vars == <<config, vocabulary, pc, call, result>>

(***************************************************************************)
(* Bounds of the model.                                                    *)
(***************************************************************************)
MaxPepLen == 2

MaxBatch == 2

MaxAdded == 1

None == -1

(***************************************************************************)
(* Alphabets.  canonical_amino_acids is pepdata's 20-letter alphabet; the  *)
(* short alphabet is a reordered subset of it.                             *)
(***************************************************************************)
AminoAcid(letter, full_name) == [letter |-> <<letter>>, full_name |-> full_name]

canonical_amino_acids ==
    << AminoAcid("A", "Alanine"),       AminoAcid("R", "Arginine"),
       AminoAcid("N", "Asparagine"),    AminoAcid("D", "Aspartic Acid"),
       AminoAcid("C", "Cysteine"),      AminoAcid("E", "Glutamic Acid"),
       AminoAcid("Q", "Glutamine"),     AminoAcid("G", "Glycine"),
       AminoAcid("H", "Histidine"),     AminoAcid("I", "Isoleucine"),
       AminoAcid("L", "Leucine"),       AminoAcid("K", "Lysine"),
       AminoAcid("M", "Methionine"),    AminoAcid("F", "Phenylalanine"),
       AminoAcid("P", "Proline"),       AminoAcid("S", "Serine"),
       AminoAcid("T", "Threonine"),     AminoAcid("W", "Tryptophan"),
       AminoAcid("Y", "Tyrosine"),      AminoAcid("V", "Valine") >>

short_alphabet ==
    << AminoAcid("C", "Cysteine"), AminoAcid("A", "Alanine"),
       AminoAcid("D", "Aspartic Acid") >>

Alphabets == {canonical_amino_acids, short_alphabet}

(***************************************************************************)
(* Inputs.  A peptide is a non-empty prefix of one of three words over the  *)
(* letters A and C (AAA..., ACA..., CAC...), of length at most MaxPepLen;  *)
(* a batch is a non-empty list of at most MaxBatch peptides.               *)
(***************************************************************************)
Word(first, second, n) == [i \in 1..n |-> IF i % 2 = 1 THEN first ELSE second]

Peptides ==
    { Word(w[1], w[2], n) :
        w \in {<<"A", "A">>, <<"A", "C">>, <<"C", "A">>}, n \in 1..MaxPepLen }

Batches == UNION { [1..b -> Peptides] : b \in 1..MaxBatch }

MaxLengths == {None} \cup (0..(MaxPepLen + 1))

TargetLengths == {None} \cup (0..(MaxPepLen + 4))

NewTokens == { <<>>, <<"-">>, <<"X">>, <<"A">>, <<"X", "Y">> }

NewNames == {"Name"}

Max(S) == CHOOSE m \in S : \A x \in S : x <= m

Lengths(peptides) == { Len(peptides[i]) : i \in DOMAIN peptides }

(***************************************************************************)
(* Vocabulary: Encoder._add_token and Encoder.__init__.                    *)
(* tokens_to_names is the OrderedDict as a list of <<token, name>> pairs,  *)
(* index_dict the dict as a function.                                      *)
(***************************************************************************)
Keys(t2n) == { t2n[i][1] : i \in DOMAIN t2n }

Vocab(t2n, idx) == [tokens_to_names |-> t2n, index_dict |-> idx]

EmptyVocab == Vocab(<<>>, [t \in {} |-> 0])

Raised(v) == [ok |-> FALSE, vocab |-> v]

Done(v) == [ok |-> TRUE, vocab |-> v]

add_token_off_by_one(v, token, name) ==
    IF Len(token) # 1 \/ token[1] \in DOMAIN v.index_dict
                      \/ token[1] \in Keys(v.tokens_to_names)
    THEN Raised(v)
    ELSE Done(Vocab(
            Append(v.tokens_to_names, <<token[1], name>>),
            [t \in DOMAIN v.index_dict \cup {token[1]} |->
                IF t = token[1] THEN Cardinality(DOMAIN v.index_dict) + 1
                ELSE v.index_dict[t]]))

add_token_overwrites(v, token, name) ==
    IF Len(token) # 1
    THEN Raised(v)
    ELSE Done(Vocab(
            Append(v.tokens_to_names, <<token[1], name>>),
            [t \in DOMAIN v.index_dict \cup {token[1]} |->
                IF t = token[1] THEN Cardinality(DOMAIN v.index_dict)
                ELSE v.index_dict[t]]))

add_token(v, token, name) ==
    IF Len(token) # 1
    THEN Raised(v)
    ELSE IF token[1] \in DOMAIN v.index_dict
    THEN Raised(v)
    ELSE IF token[1] \in Keys(v.tokens_to_names)
    THEN Raised(v)
    ELSE Done(Vocab(
            Append(v.tokens_to_names, <<token[1], name>>),
            [t \in DOMAIN v.index_dict \cup {token[1]} |->
                IF t = token[1] THEN Cardinality(DOMAIN v.index_dict)
                ELSE v.index_dict[t]]))

RECURSIVE add_tokens(_, _)
add_tokens(v, pairs) ==
    IF pairs = <<>> THEN Done(v)
    ELSE LET r == add_token(v, pairs[1][1], pairs[1][2])
         IN  IF r.ok THEN add_tokens(r.vocab, Tail(pairs)) ELSE r

init_tokens(alphabet, variable_length, start, stop) ==
    (IF variable_length THEN << <<(<<"-">>), "Gap">> >> ELSE <<>>)
    \o (IF start THEN << <<(<<"^">>), "Start">> >> ELSE <<>>)
    \o (IF stop THEN << <<(<<"$">>), "Stop">> >> ELSE <<>>)
    \o [i \in DOMAIN alphabet |-> <<alphabet[i].letter, alphabet[i].full_name>>]

tokens == [i \in DOMAIN tokens_to_names |-> tokens_to_names[i][1]]

amino_acid_names == [i \in DOMAIN tokens_to_names |-> tokens_to_names[i][2]]

len == Len(tokens)

Idle == [op |-> "none"]

NoResult == [status |-> "none"]

InitWith(alphabets, extra_flags) ==
    /\ amino_acid_alphabet \in alphabets
    /\ variable_length_sequences \in BOOLEAN
    /\ add_start_tokens \in BOOLEAN
    /\ add_stop_tokens \in BOOLEAN
    /\ add_normalized_position \in extra_flags
    /\ add_normalized_centrality \in extra_flags
    /\ LET r == add_tokens(EmptyVocab,
                    init_tokens(amino_acid_alphabet, variable_length_sequences,
                                add_start_tokens, add_stop_tokens))
       IN  /\ r.ok
           /\ tokens_to_names = r.vocab.tokens_to_names
           /\ index_dict = r.vocab.index_dict
    /\ n_added = 0
    /\ pc = "idle"
    /\ call = Idle
    /\ result = NoResult

Init == InitWith(Alphabets, BOOLEAN)

(***************************************************************************)
(* Encoder.__setitem__(k, v): one more token after construction.           *)
(***************************************************************************)
SetItem ==
    /\ pc = "idle"
    /\ n_added < MaxAdded
    /\ \E k \in NewTokens, v \in NewNames :
         LET r == add_token(Vocab(tokens_to_names, index_dict), k, v)
         IN  /\ tokens_to_names' = r.vocab.tokens_to_names
             /\ index_dict' = r.vocab.index_dict
             /\ n_added' = IF r.ok THEN n_added + 1 ELSE n_added
             /\ call' = [op |-> "__setitem__", k |-> k, v |-> v]
             /\ result' = [status |-> IF r.ok THEN "ok" ELSE "AssertionError"]
    /\ pc' = "returned"
    /\ UNCHANGED config

(***************************************************************************)
(* The caller takes the result (or the exception) of the last call.        *)
(***************************************************************************)
Return ==
    /\ pc = "returned"
    /\ pc' = "idle"
    /\ call' = Idle
    /\ result' = NoResult
    /\ UNCHANGED <<config, vocabulary>>

NextVocabulary == SetItem \/ Return

SpecVocabulary == Init /\ [][NextVocabulary]_vars

(***************************************************************************)
(* Encoder.prepare_sequences and the length validation.                    *)
(***************************************************************************)
Truthy(x) == x # None /\ x # 0

Gaps(n) == [i \in 1..n |-> "-"]

Affixed(p) ==
    (IF add_start_tokens THEN <<"^">> ELSE <<>>)
    \o p
    \o (IF add_stop_tokens THEN <<"$">> ELSE <<>>)

prepare_sequences_counts_affixes(peptides, padded_peptide_length) ==
    [i \in DOMAIN peptides |->
        IF Truthy(padded_peptide_length)
        THEN Affixed(peptides[i])
             \o Gaps(padded_peptide_length - Len(Affixed(peptides[i])))
        ELSE Affixed(peptides[i])]

prepare_sequences(peptides, padded_peptide_length) ==
    LET started == [i \in DOMAIN peptides |->
                      IF add_start_tokens THEN <<"^">> \o peptides[i]
                      ELSE peptides[i]]
        length1 == IF add_start_tokens /\ Truthy(padded_peptide_length)
                   THEN padded_peptide_length + 1 ELSE padded_peptide_length
        stopped == [i \in DOMAIN peptides |->
                      IF add_stop_tokens THEN started[i] \o <<"$">>
                      ELSE started[i]]
        length2 == IF add_stop_tokens /\ Truthy(length1)
                   THEN length1 + 1 ELSE length1
    IN  IF Truthy(length2)
        THEN [i \in DOMAIN peptides |->
                stopped[i] \o Gaps(length2 - Len(stopped[i]))]
        ELSE stopped

validate_peptide_lengths_inclusive(peptides, max_peptide_length) ==
    LET limit == IF max_peptide_length = None THEN Max(Lengths(peptides))
                 ELSE max_peptide_length
    IN  IF variable_length_sequences
        THEN IF Max(Lengths(peptides)) >= limit
             THEN [status |-> "ValueError", max_peptide_length |-> limit]
             ELSE [status |-> "ok", max_peptide_length |-> limit]
        ELSE IF \E i \in DOMAIN peptides : Len(peptides[i]) # limit
             THEN [status |-> "ValueError", max_peptide_length |-> limit]
             ELSE [status |-> "ok", max_peptide_length |-> limit]

validate_peptide_lengths(peptides, max_peptide_length) ==
    LET limit == IF max_peptide_length = None THEN Max(Lengths(peptides))
                 ELSE max_peptide_length
    IN  IF variable_length_sequences
        THEN LET max_observed_length == Max(Lengths(peptides))
             IN  IF max_observed_length > limit
                 THEN [status |-> "ValueError", max_peptide_length |-> limit]
                 ELSE [status |-> "ok", max_peptide_length |-> limit]
        ELSE IF \E i \in DOMAIN peptides : Len(peptides[i]) # limit
             THEN [status |-> "ValueError", max_peptide_length |-> limit]
             ELSE [status |-> "ok", max_peptide_length |-> limit]

Bit(b) == IF b THEN 1 ELSE 0

validate_and_prepare_peptides(peptides, max_peptide_length) ==
    LET checked == validate_peptide_lengths(peptides, max_peptide_length)
    IN  IF checked.status # "ok"
        THEN [status |-> checked.status]
        ELSE [status |-> "ok",
              peptides |-> prepare_sequences(peptides, None),
              max_peptide_length |->
                  checked.max_peptide_length + Bit(add_start_tokens)
                                             + Bit(add_stop_tokens)]

Returns(c, r) ==
    /\ pc = "idle"
    /\ pc' = "returned"
    /\ call' = c
    /\ result' = r
    /\ UNCHANGED <<config, vocabulary>>

PrepareSequences ==
    \E peptides \in Batches, padded_peptide_length \in TargetLengths :
        Returns([op |-> "prepare_sequences", peptides |-> peptides,
                 padded_peptide_length |-> padded_peptide_length],
                [status |-> "ok",
                 peptides |-> prepare_sequences(peptides, padded_peptide_length)])

ValidateAndPrepare ==
    \E peptides \in Batches, max_peptide_length \in MaxLengths :
        Returns([op |-> "_validate_and_prepare_peptides", peptides |-> peptides,
                 max_peptide_length |-> max_peptide_length],
                validate_and_prepare_peptides(peptides, max_peptide_length))

NextPrepare == PrepareSequences \/ ValidateAndPrepare \/ Return

InitPrepare == InitWith({short_alphabet}, {FALSE})

SpecPrepare == InitPrepare /\ [][NextPrepare]_vars

(***************************************************************************)
(* Encoder.encode_index_array.                                             *)
(***************************************************************************)
Rows(peptides) == 0..(Len(peptides) - 1)

encode_index_array_fills_ones(peptides, max_peptide_length) ==
    LET prepared == validate_and_prepare_peptides(peptides, max_peptide_length)
    IN  IF add_normalized_centrality \/ add_normalized_position
        THEN [status |-> "AssertionError"]
        ELSE IF prepared.status # "ok" THEN [status |-> prepared.status]
        ELSE [status |-> "ok",
              shape |-> <<Len(peptides), prepared.max_peptide_length>>,
              X_index |->
                [i \in Rows(peptides) |->
                    [j \in 0..(prepared.max_peptide_length - 1) |->
                        IF j < Len(prepared.peptides[i + 1])
                        THEN index_dict[prepared.peptides[i + 1][j + 1]]
                        ELSE 1]]]

encode_index_array(peptides, max_peptide_length) ==
    IF add_normalized_centrality THEN [status |-> "AssertionError"]
    ELSE IF add_normalized_position THEN [status |-> "AssertionError"]
    ELSE
    LET prepared == validate_and_prepare_peptides(peptides, max_peptide_length)
    IN  IF prepared.status # "ok" THEN [status |-> prepared.status]
        ELSE IF \E i \in DOMAIN prepared.peptides :
                    Len(prepared.peptides[i]) > prepared.max_peptide_length
        THEN [status |-> "IndexError"]
        ELSE [status |-> "ok",
              shape |-> <<Len(peptides), prepared.max_peptide_length>>,
              X_index |->
                [i \in Rows(peptides) |->
                    [j \in 0..(prepared.max_peptide_length - 1) |->
                        IF j < Len(prepared.peptides[i + 1])
                        THEN index_dict[prepared.peptides[i + 1][j + 1]]
                        ELSE 0]]]

EncodeIndexArray ==
    \E peptides \in Batches, max_peptide_length \in MaxLengths :
        Returns([op |-> "encode_index_array", peptides |-> peptides,
                 max_peptide_length |-> max_peptide_length],
                encode_index_array(peptides, max_peptide_length))

NextIndex == SetItem \/ EncodeIndexArray \/ Return

InitIndex == InitWith({short_alphabet}, {FALSE})

SpecIndex == InitIndex /\ [][NextIndex]_vars

(***************************************************************************)
(* Encoder._add_extra_features and Encoder.encode_onehot.                  *)
(* A float is an exact fraction [num, den]; 0/0 is the NaN that numpy      *)
(* yields for it.  The stacked result keeps X and the list of the extra    *)
(* channels stacked after it, with the shape of the whole.                 *)
(***************************************************************************)
Frac(num, den) == [num |-> num, den |-> den]

Zero == Frac(0, 1)

Abs(x) == IF x < 0 THEN -x ELSE x

\* numpy assigns an array of shape (l,) to a row of shape (m,) when l = m, and
\* broadcasts it when l = 1
Assignable(l, m) == l = m \/ l = 1

add_extra_features(X, shape, peptides) ==
    IF ~add_normalized_position /\ ~add_normalized_centrality
    THEN [status |-> "ok", shape |-> shape, X |-> X, extra_arrays |-> <<>>]
    ELSE
    LET lengths == [i \in Rows(peptides) |-> Len(peptides[i + 1])]
        max_length == Max({ lengths[i] : i \in Rows(peptides) })
        \* center = (l - 1) / 2, so abs(vec - center) / center is
        \* abs(2 * vec - (l - 1)) / (l - 1)
        X_centrality ==
            [i \in Rows(peptides) |->
                [j \in 0..(max_length - 1) |->
                    IF j < lengths[i]
                    THEN Frac(Abs(2 * j - (lengths[i] - 1)), lengths[i] - 1)
                    ELSE Zero]]
        X_position ==
            [i \in Rows(peptides) |->
                [j \in 0..(max_length - 1) |->
                    IF lengths[i] = max_length THEN Frac(j, lengths[i])
                    ELSE Frac(0, lengths[i])]]
        extra_arrays ==
            (IF add_normalized_centrality THEN <<X_centrality>> ELSE <<>>)
            \o (IF add_normalized_position THEN <<X_position>> ELSE <<>>)
    IN  IF \E i \in Rows(peptides) : ~Assignable(lengths[i], max_length)
        THEN [status |-> "ValueError"]
        ELSE IF max_length # shape[2]
        THEN [status |-> "ValueError"]
        ELSE [status |-> "ok",
              shape |-> <<shape[1], shape[2], shape[3] + Len(extra_arrays)>>,
              X |-> X,
              extra_arrays |-> extra_arrays]

encode_onehot(peptides, max_peptide_length) ==
    LET prepared == validate_and_prepare_peptides(peptides, max_peptide_length)
        n_symbols == Cardinality(DOMAIN index_dict)
    IN  IF prepared.status # "ok" THEN [status |-> prepared.status]
        ELSE IF \E i \in DOMAIN prepared.peptides :
                    Len(prepared.peptides[i]) > prepared.max_peptide_length
        THEN [status |-> "IndexError"]
        ELSE add_extra_features(
                [i \in Rows(peptides) |->
                    [j \in 0..(prepared.max_peptide_length - 1) |->
                        [k \in 0..(n_symbols - 1) |->
                            IF /\ j < Len(prepared.peptides[i + 1])
                               /\ index_dict[prepared.peptides[i + 1][j + 1]] = k
                            THEN 1 ELSE 0]]],
                <<Len(peptides), prepared.max_peptide_length, n_symbols>>,
                prepared.peptides)

EncodeOnehot ==
    \E peptides \in Batches, max_peptide_length \in MaxLengths :
        Returns([op |-> "encode_onehot", peptides |-> peptides,
                 max_peptide_length |-> max_peptide_length],
                encode_onehot(peptides, max_peptide_length))

NextOnehot == EncodeOnehot \/ Return

InitOnehot == InitWith({short_alphabet}, BOOLEAN)

SpecOnehot == InitOnehot /\ [][NextOnehot]_vars

(***************************************************************************)
(* Encoder._encode_from_pairwise_properties, encode_pmbec, encode_blosum.  *)
(* amino_acid_letter_indices is pepdata's index of a letter in the         *)
(* canonical alphabet; the two 20 x 20 matrices are pepdata's tables, here *)
(* symmetric integer tables with a non-zero diagonal standing for them.    *)
(***************************************************************************)
N_PROPERTY_COLUMNS == 20

amino_acid_letter_indices(letter) ==
    (CHOOSE i \in DOMAIN canonical_amino_acids :
        canonical_amino_acids[i].letter = <<letter>>) - 1

pmbec_matrix ==
    [a \in 0..19 |-> [b \in 0..19 |->
        IF a = b THEN 10 + a ELSE ((a + b) % 9) - 4]]

blosum62_matrix ==
    [a \in 0..19 |-> [b \in 0..19 |->
        IF a = b THEN 4 + (a % 3) ELSE ((a * b + a + b) % 7) - 4]]

encode_from_pairwise_properties(peptides, max_peptide_length, property_matrix) ==
    LET prepared == validate_and_prepare_peptides(peptides, max_peptide_length)
        alphabet_indices ==
            [c \in 0..(Len(amino_acid_alphabet) - 1) |->
                amino_acid_letter_indices(amino_acid_alphabet[c + 1].letter[1])]
        n_columns == Len(amino_acid_alphabet)
        aa_to_feature_row(token) ==
            IF token \in {"-", "^", "$"}
            THEN [c \in 0..(n_columns - 1) |-> 0]
            ELSE [c \in 0..(n_columns - 1) |->
                    property_matrix[amino_acid_letter_indices(token)]
                                   [alphabet_indices[c]]]
        \* X[i, j, :] = row, a row of n_columns values into N_PROPERTY_COLUMNS
        Assigned(row) ==
            [c \in 0..(N_PROPERTY_COLUMNS - 1) |->
                IF n_columns = N_PROPERTY_COLUMNS THEN row[c] ELSE row[0]]
    IN  IF prepared.status # "ok" THEN [status |-> prepared.status]
        ELSE IF \E i \in DOMAIN prepared.peptides :
                    Len(prepared.peptides[i]) > prepared.max_peptide_length
        THEN [status |-> "IndexError"]
        ELSE IF /\ \E i \in DOMAIN prepared.peptides : Len(prepared.peptides[i]) > 0
                /\ ~Assignable(n_columns, N_PROPERTY_COLUMNS)
        THEN [status |-> "ValueError"]
        ELSE add_extra_features(
                [i \in Rows(peptides) |->
                    [j \in 0..(prepared.max_peptide_length - 1) |->
                        IF j < Len(prepared.peptides[i + 1])
                        THEN Assigned(aa_to_feature_row(prepared.peptides[i + 1][j + 1]))
                        ELSE [c \in 0..(N_PROPERTY_COLUMNS - 1) |-> 0]]],
                <<Len(peptides), prepared.max_peptide_length, N_PROPERTY_COLUMNS>>,
                prepared.peptides)

encode_pmbec(peptides, max_peptide_length) ==
    encode_from_pairwise_properties(peptides, max_peptide_length, pmbec_matrix)

encode_blosum(peptides, max_peptide_length) ==
    encode_from_pairwise_properties(peptides, max_peptide_length, blosum62_matrix)

EncodePmbec ==
    \E peptides \in Batches, max_peptide_length \in MaxLengths :
        Returns([op |-> "encode_pmbec", peptides |-> peptides,
                 max_peptide_length |-> max_peptide_length],
                encode_pmbec(peptides, max_peptide_length))

EncodeBlosum ==
    \E peptides \in Batches, max_peptide_length \in MaxLengths :
        Returns([op |-> "encode_blosum", peptides |-> peptides,
                 max_peptide_length |-> max_peptide_length],
                encode_blosum(peptides, max_peptide_length))

NextPairwise == EncodePmbec \/ EncodeBlosum \/ Return

SpecPairwise == Init /\ [][NextPairwise]_vars

(***************************************************************************)
(* Encoder.encode_FOFE.  The forgetting factor is a fraction in lowest     *)
(* terms and every sum is kept in lowest terms.                            *)
(***************************************************************************)
RECURSIVE GCD(_, _)
GCD(a, b) == IF b = 0 THEN a ELSE GCD(b, a % b)

RECURSIVE IntPow(_, _)
IntPow(x, e) == IF e = 0 THEN 1 ELSE x * IntPow(x, e - 1)

Lowest(f) == LET g == GCD(f.num, f.den) IN Frac(f.num \div g, f.den \div g)

Power(alpha, e) == Frac(IntPow(alpha.num, e), IntPow(alpha.den, e))

Plus(a, b) ==
    LET common == (a.den \div GCD(a.den, b.den)) * b.den
    IN  Lowest(Frac(a.num * (common \div a.den) + b.num * (common \div b.den),
                    common))

Alphas == { Frac(7, 10), Frac(1, 2), Frac(1, 1) }

RECURSIVE fofe_row_mirrored(_, _, _, _, _, _)
fofe_row_mirrored(row, p, j, alpha, bidirectional, n_symbols) ==
    IF j = Len(p) THEN row
    ELSE LET aa_idx == index_dict[p[j + 1]]
             forward == [row EXCEPT ![aa_idx] = Plus(@, Power(alpha, j))]
             both == IF bidirectional
                     THEN [forward EXCEPT ![n_symbols + aa_idx] =
                             Plus(@, Power(alpha, Len(p) - j - 1))]
                     ELSE forward
         IN  fofe_row_mirrored(both, p, j + 1, alpha, bidirectional, n_symbols)

\* the loop over enumerate(p), from offset j on, of one row of the result
RECURSIVE fofe_row(_, _, _, _, _, _)
fofe_row(row, p, j, alpha, bidirectional, n_symbols) ==
    IF j = Len(p) THEN row
    ELSE LET aa_idx == index_dict[p[j + 1]]
             forward == [row EXCEPT ![aa_idx] =
                            Plus(@, Power(alpha, Len(p) - j - 1))]
             both == IF bidirectional
                     THEN [forward EXCEPT ![n_symbols + aa_idx] =
                             Plus(@, Power(alpha, j))]
                     ELSE forward
         IN  fofe_row(both, p, j + 1, alpha, bidirectional, n_symbols)

encode_FOFE(peptides, alpha, bidirectional) ==
    LET prepared == prepare_sequences(peptides, None)
        n_symbols == Cardinality(DOMAIN index_dict)
        width == IF bidirectional THEN 2 * n_symbols ELSE n_symbols
    IN  [status |-> "ok",
         shape |-> <<Len(peptides), width>>,
         result |->
            [i \in Rows(peptides) |->
                fofe_row([k \in 0..(width - 1) |-> Zero], prepared[i + 1], 0,
                         alpha, bidirectional, n_symbols)]]

EncodeFOFE ==
    \E peptides \in Batches, alpha \in Alphas, bidirectional \in BOOLEAN :
        Returns([op |-> "encode_FOFE", peptides |-> peptides,
                 alpha |-> alpha, bidirectional |-> bidirectional],
                encode_FOFE(peptides, alpha, bidirectional))

NextFOFE == EncodeFOFE \/ Return

InitFOFE == InitWith({short_alphabet}, BOOLEAN)

SpecFOFE == InitFOFE /\ [][NextFOFE]_vars

(***************************************************************************)
(* Properties of the vocabulary.                                           *)
(***************************************************************************)
ExpectedInitialTokens ==
    (IF variable_length_sequences THEN <<"-">> ELSE <<>>)
    \o (IF add_start_tokens THEN <<"^">> ELSE <<>>)
    \o (IF add_stop_tokens THEN <<"$">> ELSE <<>>)
    \o [i \in DOMAIN amino_acid_alphabet |-> amino_acid_alphabet[i].letter[1]]

\* C5: the token list and the index table have the same keys, each token's
\* index is its position in insertion order (gap, start, stop, the alphabet's
\* letters, then later additions), the indices are exactly 0..n-1, and right
\* after construction n is the number of enabled structural tokens plus the
\* size of the alphabet.
C5_VocabularyIndexedInInsertionOrder ==
    /\ Keys(tokens_to_names) = DOMAIN index_dict
    /\ Cardinality(DOMAIN index_dict) = len
    /\ \A i \in DOMAIN tokens : index_dict[tokens[i]] = i - 1
    /\ { index_dict[t] : t \in DOMAIN index_dict } = 0..(len - 1)
    /\ len = Len(ExpectedInitialTokens) + n_added
    /\ SubSeq(tokens, 1, Len(ExpectedInitialTokens)) = ExpectedInitialTokens
    /\ n_added = 0 =>
         len = Bit(variable_length_sequences) + Bit(add_start_tokens)
               + Bit(add_stop_tokens) + Len(amino_acid_alphabet)

C5_Witness ==
    /\ pc = "returned"
    /\ call.op = "__setitem__"
    /\ result.status = "ok"
    /\ variable_length_sequences /\ add_start_tokens /\ add_stop_tokens
    /\ n_added = 1

\* C6: whenever the gap token "-" is in the vocabulary, its index is 0.
C6_GapTokenHasIndexZero ==
    "-" \in DOMAIN index_dict => index_dict["-"] = 0

\* C10: an addition through __setitem__ fails exactly when the token is
\* empty, longer than one character or already present; a failed addition
\* leaves tokens, names and indices unchanged; a successful one appends that
\* token at the index equal to the previous size and changes no other entry.
C10_AddTokenRejectsOrAppends ==
    [][ (pc = "idle" /\ call'.op = "__setitem__") =>
          LET k == call'.k
              rejected == Len(k) = 0 \/ Len(k) > 1 \/ k[1] \in Keys(tokens_to_names)
          IN  /\ (result'.status = "AssertionError") <=> rejected
              /\ (result'.status = "ok") <=> ~rejected
              /\ rejected => UNCHANGED <<tokens_to_names, index_dict>>
              /\ ~rejected =>
                   /\ tokens_to_names' = Append(tokens_to_names, <<k[1], call'.v>>)
                   /\ DOMAIN index_dict' = DOMAIN index_dict \cup {k[1]}
                   /\ index_dict'[k[1]] = Len(tokens_to_names)
                   /\ \A t \in DOMAIN index_dict : index_dict'[t] = index_dict[t]
      ]_vars

C10_Witness ==
    /\ pc = "returned"
    /\ call.op = "__setitem__"
    /\ result.status = "AssertionError"
    /\ Len(call.k) = 1
    /\ call.k[1] \in DOMAIN index_dict

(***************************************************************************)
(* Properties of the preparation and the validation.                       *)
(***************************************************************************)
\* C1: _validate_and_prepare_peptides with max length M (the longest raw
\* peptide when omitted) raises the length error if and only if, in
\* variable-length mode, some raw peptide is longer than M or, in fixed-length
\* mode, some raw peptide's length differs from M; otherwise it returns the
\* effective length M + (1 if start tokens) + (1 if stop tokens).
C1_LengthErrorIffMismatch ==
    (pc = "returned" /\ call.op = "_validate_and_prepare_peptides") =>
        LET raw == call.peptides
            M == IF call.max_peptide_length = None
                 THEN Max(Lengths(raw)) ELSE call.max_peptide_length
            mismatch ==
                \/ variable_length_sequences
                   /\ \E i \in DOMAIN raw : Len(raw[i]) > M
                \/ ~variable_length_sequences
                   /\ \E i \in DOMAIN raw : Len(raw[i]) # M
        IN  /\ (result.status = "ValueError") <=> mismatch
            /\ ~mismatch =>
                 /\ result.status = "ok"
                 /\ result.max_peptide_length =
                      M + Bit(add_start_tokens) + Bit(add_stop_tokens)

C1_Witness ==
    /\ pc = "returned"
    /\ call.op = "_validate_and_prepare_peptides"
    /\ variable_length_sequences
    /\ add_start_tokens
    /\ call.max_peptide_length # None
    /\ \E i \in DOMAIN call.peptides :
          Len(call.peptides[i]) = call.max_peptide_length
    /\ \E i \in DOMAIN call.peptides :
          Len(call.peptides[i]) < call.max_peptide_length
    /\ result.status = "ok"

PaddedTo(affixed, total) ==
    [j \in 1..total |-> IF j <= Len(affixed) THEN affixed[j] ELSE "-"]

\* C4 as stated: prepare_sequences with target length T returns each peptide
\* with its start/stop tokens affixed and right-padded with gap tokens to a
\* total length of exactly T, T counting the affixed tokens; with T omitted
\* the affixed string is returned unpadded.
C4_PadsToTargetCountingAffixes ==
    (pc = "returned" /\ call.op = "prepare_sequences") =>
        \A i \in DOMAIN call.peptides :
            LET affixed == Affixed(call.peptides[i])
                T == call.padded_peptide_length
            IN  /\ (T # None /\ Len(affixed) <= T) =>
                      result.peptides[i] = PaddedTo(affixed, T)
                /\ T = None => result.peptides[i] = affixed

\* C4 as amended: the total length after padding is T + (1 if start tokens)
\* + (1 if stop tokens), T counting the raw letters only (whenever the raw
\* peptide is not longer than T); with T omitted the affixed string is
\* returned unpadded.
C4_PadsToTargetPlusAffixes ==
    (pc = "returned" /\ call.op = "prepare_sequences") =>
        \A i \in DOMAIN call.peptides :
            LET affixed == Affixed(call.peptides[i])
                T == call.padded_peptide_length
                total == T + Bit(add_start_tokens) + Bit(add_stop_tokens)
            IN  /\ (T # None /\ Len(call.peptides[i]) <= T) =>
                      result.peptides[i] = PaddedTo(affixed, total)
                /\ T = None => result.peptides[i] = affixed

C4_Witness ==
    /\ pc = "returned"
    /\ call.op = "prepare_sequences"
    /\ add_start_tokens /\ add_stop_tokens
    /\ call.peptides = << <<"A", "C">> >>
    /\ call.padded_peptide_length = 6
    /\ result.peptides = << <<"^", "A", "C", "$", "-", "-", "-", "-">> >>

(***************************************************************************)
(* Properties of the index and one-hot encodings.                          *)
(***************************************************************************)
Accepted(peptides, max_peptide_length) ==
    LET M == IF max_peptide_length = None THEN Max(Lengths(peptides))
             ELSE max_peptide_length
    IN  IF variable_length_sequences
        THEN \A i \in DOMAIN peptides : Len(peptides[i]) <= M
        ELSE \A i \in DOMAIN peptides : Len(peptides[i]) = M

EffectiveLength(peptides, max_peptide_length) ==
    (IF max_peptide_length = None THEN Max(Lengths(peptides))
     ELSE max_peptide_length)
    + Bit(add_start_tokens) + Bit(add_stop_tokens)

NoExtras == ~add_normalized_position /\ ~add_normalized_centrality

TokenOfIndex(n) == CHOOSE t \in DOMAIN index_dict : index_dict[t] = n

\* C3: without position/centrality augmentation and for a batch the length
\* validation accepts, decoding every integer of row i of encode_index_array
\* through the inverse of the index table gives the i-th peptide with its
\* start/stop tokens affixed, right-padded with gap tokens to the effective
\* length.
C3_IndexRowsDecodeToPaddedPeptides ==
    ( /\ pc = "returned"
      /\ call.op = "encode_index_array"
      /\ NoExtras
      /\ Accepted(call.peptides, call.max_peptide_length) ) =>
        LET effective == EffectiveLength(call.peptides, call.max_peptide_length)
        IN  /\ result.status = "ok"
            /\ result.shape = <<Len(call.peptides), effective>>
            /\ \A i \in Rows(call.peptides) :
                 /\ \A j \in 0..(effective - 1) :
                       \E t \in DOMAIN index_dict :
                           index_dict[t] = result.X_index[i][j]
                 /\ [j \in 1..effective |->
                        TokenOfIndex(result.X_index[i][j - 1])]
                    = PaddedTo(Affixed(call.peptides[i + 1]), effective)

C3_Witness ==
    /\ pc = "returned"
    /\ call.op = "encode_index_array"
    /\ result.status = "ok"
    /\ add_start_tokens /\ add_stop_tokens
    /\ \E i \in DOMAIN call.peptides :
          /\ Len(call.peptides[i]) > 0
          /\ Len(call.peptides[i]) + 2 < result.shape[2]

\* C2: without position/centrality augmentation and for a batch the length
\* validation accepts, encode_onehot returns shape (batch, effective length,
\* vocabulary size) and every cell has exactly one channel equal to 1: the
\* channel of the j-th token of the affixed peptide, and the gap channel at
\* every trailing position of a peptide shorter than the effective length.
C2_OnehotHasOneHotChannelEverywhere ==
    ( /\ pc = "returned"
      /\ call.op = "encode_onehot"
      /\ NoExtras
      /\ Accepted(call.peptides, call.max_peptide_length) ) =>
        LET effective == EffectiveLength(call.peptides, call.max_peptide_length)
            n_symbols == Cardinality(DOMAIN index_dict)
        IN  /\ result.status = "ok"
            /\ result.shape = <<Len(call.peptides), effective, n_symbols>>
            /\ \A i \in Rows(call.peptides) : \A j \in 0..(effective - 1) :
                 LET token == PaddedTo(Affixed(call.peptides[i + 1]), effective)[j + 1]
                 IN  /\ token \in DOMAIN index_dict
                     /\ \A k \in 0..(n_symbols - 1) :
                          result.X[i][j][k] = IF k = index_dict[token] THEN 1 ELSE 0

FracEq(a, b) == a.den # 0 /\ b.den # 0 /\ a.num * b.den = b.num * a.den

\* C7: with position and/or centrality augmentation enabled and a batch the
\* length validation accepts, encode_onehot succeeds with shape (batch,
\* effective length, vocabulary size + number of enabled extras), the extra
\* channels stacked last in the order centrality, position; the position
\* value at offset j of a peptide of raw length l is j / l for j < l, and
\* both extra channels are 0 at every offset j >= l.
C7_ExtraChannelsFromRawLengths ==
    ( /\ pc = "returned"
      /\ call.op = "encode_onehot"
      /\ ~NoExtras
      /\ Accepted(call.peptides, call.max_peptide_length) ) =>
        LET effective == EffectiveLength(call.peptides, call.max_peptide_length)
            n_symbols == Cardinality(DOMAIN index_dict)
            n_extras == Bit(add_normalized_centrality) + Bit(add_normalized_position)
        IN  /\ result.status = "ok"
            /\ result.shape = <<Len(call.peptides), effective, n_symbols + n_extras>>
            /\ Len(result.extra_arrays) = n_extras
            /\ \A i \in Rows(call.peptides) : \A j \in 0..(effective - 1) :
                 LET l == Len(call.peptides[i + 1])
                 IN  /\ \A c \in 1..n_extras :
                           j >= l => FracEq(result.extra_arrays[c][i][j], Zero)
                     /\ (add_normalized_position /\ j < l) =>
                           FracEq(result.extra_arrays[n_extras][i][j], Frac(j, l))

(***************************************************************************)
(* Properties of the pairwise-property and FOFE encodings.                 *)
(***************************************************************************)
PropertyMatrixOf(op) == IF op = "encode_pmbec" THEN pmbec_matrix ELSE blosum62_matrix

\* C8: for every configured alphabet and every batch the length validation
\* accepts, encode_pmbec and encode_blosum return shape (batch, effective
\* length, alphabet size); the row at a position holding a letter is that
\* letter's property-matrix row re-projected onto the configured alphabet's
\* column order, and the row at a position holding a structural token or left
\* unfilled by padding is the all-zero vector of length alphabet size.
C8_PairwiseRowsHaveAlphabetSize ==
    ( /\ pc = "returned"
      /\ call.op \in {"encode_pmbec", "encode_blosum"}
      /\ NoExtras
      /\ Accepted(call.peptides, call.max_peptide_length) ) =>
        LET effective == EffectiveLength(call.peptides, call.max_peptide_length)
            alphabet_size == Len(amino_acid_alphabet)
            matrix == PropertyMatrixOf(call.op)
            letters == { amino_acid_alphabet[c].letter[1] : c \in DOMAIN amino_acid_alphabet }
        IN  /\ result.status = "ok"
            /\ result.shape = <<Len(call.peptides), effective, alphabet_size>>
            /\ \A i \in Rows(call.peptides) : \A j \in 0..(effective - 1) :
                 LET token == PaddedTo(Affixed(call.peptides[i + 1]), effective)[j + 1]
                 IN  result.X[i][j] =
                        [c \in 0..(alphabet_size - 1) |->
                            IF token \in letters
                            THEN matrix[amino_acid_letter_indices(token)]
                                       [amino_acid_letter_indices(
                                            amino_acid_alphabet[c + 1].letter[1])]
                            ELSE 0]

RECURSIVE SumOver(_, _, _, _)
SumOver(offsets, alpha, degree, exponent) ==
    IF offsets = {} THEN 0
    ELSE LET j == CHOOSE x \in offsets : TRUE
         IN  IntPow(alpha.num, exponent[j]) * IntPow(alpha.den, degree - exponent[j])
             + SumOver(offsets \ {j}, alpha, degree, exponent)

\* the sum over the offsets j of affixed holding token of alpha^exponent[j]
DecayedSum(affixed, token, alpha, exponent) ==
    LET offsets == { j \in 0..(Len(affixed) - 1) : affixed[j + 1] = token }
        degree == Len(affixed)
    IN  Lowest(Frac(SumOver(offsets, alpha, degree, exponent),
                    IntPow(alpha.den, degree)))

\* C9: encode_FOFE raises nothing for batches of mixed lengths and returns
\* width vocabulary size, or twice that when bidirectional; for a peptide
\* whose affixed, unpadded form has length l, forward cell k is the sum over
\* the offsets j holding token k of alpha^(l-1-j), and when bidirectional
\* cell vocabulary size + k is the sum over the same offsets of alpha^j;
\* cells of absent tokens are 0.
C9_FofeCellsAreDecayedSums ==
    (pc = "returned" /\ call.op = "encode_FOFE") =>
        LET n_symbols == Cardinality(DOMAIN index_dict)
        IN  /\ result.status = "ok"
            /\ result.shape =
                 <<Len(call.peptides),
                   IF call.bidirectional THEN 2 * n_symbols ELSE n_symbols>>
            /\ \A i \in Rows(call.peptides) :
                 LET affixed == Affixed(call.peptides[i + 1])
                     l == Len(affixed)
                 IN  /\ DOMAIN result.result[i] = 0..(result.shape[2] - 1)
                     /\ \A token \in DOMAIN index_dict :
                          /\ result.result[i][index_dict[token]] =
                                DecayedSum(affixed, token, call.alpha,
                                           [j \in 0..(l - 1) |-> l - 1 - j])
                          /\ call.bidirectional =>
                                result.result[i][n_symbols + index_dict[token]] =
                                    DecayedSum(affixed, token, call.alpha,
                                               [j \in 0..(l - 1) |-> j])

C9_Witness ==
    /\ pc = "returned"
    /\ call.op = "encode_FOFE"
    /\ call.bidirectional
    /\ call.alpha = Frac(7, 10)
    /\ add_start_tokens
    /\ Len(call.peptides) = 2
    /\ call.peptides[1] = <<"A", "A">>
    /\ Len(call.peptides[2]) = 1
    /\ result.result[0][index_dict["A"]] = Frac(17, 10)


====
